---- MODULE Spec2Model ----
(***************************************************************************)
(* Model of Thunder/utils/custom_dl.py: ByteStreamer.                      *)
(*                                                                         *)
(* Every stream is one invocation of the async generator yield_file.  The  *)
(* program runs on one asyncio event loop, so the code between two awaits  *)
(* (or yields) is atomic: each action below is the code from one           *)
(* suspension point of a stream to its next one, and pc[s] names the       *)
(* await / yield the stream is parked at.                                  *)
(***************************************************************************)
EXTENDS Integers, Sequences, FiniteSets, TLC

\* ------------------------------------------------------------------ bounds
NumWorkers == 2
NumDCs == 2
MaxChunk == 3
MaxFileSize == 6
NumMessages == 3
MaxSweeps == 2

\* the invocations of yield_file: two of them, so that one can overlap the other
Streams == {1, 2}
Workers == 1..NumWorkers
DCs == 1..NumDCs
\* the message ids of the store channel
Messages == 1..NumMessages
\* the invocations of get_file_properties that can be under way at once
Resolvers == {1, 2}

\* self.client.storage.dc_id: the data center the worker client is logged in to
client_dc_id == 1

None == 0
NoReq == [index |-> 0]

\* ------------------------------------------------------- pure helper code
Min(a, b) == IF a < b THEN a ELSE b
Max(a, b) == IF a > b THEN a ELSE b

\* the byte stored at (0-based) position i of a file
FileByte(i) == i

\* bytes lo .. hi-1 of the file
FileBytes(lo, hi) == [k \in 1..Max(hi - lo, 0) |-> FileByte(lo + k - 1)]

\* Python's seq[a:b] for 0 <= a, 0 <= b (both ends clamp to len(seq))
Slice(seq, a, b) ==
  LET hi == Min(b, Len(seq))
      lo == Min(a, hi)
  IN [k \in 1..(hi - lo) |-> seq[lo + k]]

\* Python's seq[a:]
SliceFrom(seq, a) == Slice(seq, a, Len(seq))

\* Python's seq[:b]
SliceTo(seq, b) == Slice(seq, 0, b)

\* the range plan the caller of yield_file computes for bytes R0..R1
PlanOffset(R0, C) == R0 - (R0 % C)
PlanFirstCut(R0, C) == R0 % C
PlanLastCut(R1, C) == (R1 % C) + 1
PlanPartCount(R0, R1, C) == ((R1 + 1 + C - 1) \div C) - (R0 \div C)

Request(w, dc, C, S, R0, R1) ==
  [index          |-> w,
   dc_id          |-> dc,
   file_size      |-> S,
   range_start    |-> R0,
   range_end      |-> R1,
   offset         |-> PlanOffset(R0, C),
   first_part_cut |-> PlanFirstCut(R0, C),
   last_part_cut  |-> PlanLastCut(R1, C),
   part_count     |-> PlanPartCount(R0, R1, C),
   chunk_size     |-> C]

\* every request with 0 <= R0 <= R1 < S
ValidRequest(r) ==
  /\ 0 <= r.range_start
  /\ r.range_start <= r.range_end
  /\ r.range_end < r.file_size

RangeRequests ==
  { r \in { Request(w, dc, C, S, R0, R1) :
              w \in {1}, dc \in DCs, C \in 1..MaxChunk, S \in 1..MaxFileSize,
              R0 \in 0..(MaxFileSize - 1), R1 \in 0..(MaxFileSize - 1) } :
      ValidRequest(r) }

\* the file served to concurrent streams: two chunks, the second one short
ConcRequests ==
  { Request(w, dc, 2, 3, 1, 2) : w \in Workers, dc \in DCs }

\* the backend's answer to GetFile(location, offset, limit) without error
BackendChunk(r, off, limit) == FileBytes(off, Min(off + limit, r.file_size))

\* Emit with the last part left whole
EmitLastWhole(r, cp, chunk) ==
  IF r.part_count = 1 THEN Slice(chunk, r.first_part_cut, r.last_part_cut)
  ELSE IF cp = 1 THEN SliceFrom(chunk, r.first_part_cut)
  ELSE chunk

\* Emit with the single part cut at its head only
EmitHeadCutOnly(r, cp, chunk) ==
  IF r.part_count = 1 THEN SliceFrom(chunk, r.first_part_cut)
  ELSE IF cp = 1 THEN SliceFrom(chunk, r.first_part_cut)
  ELSE IF cp = r.part_count THEN SliceTo(chunk, r.last_part_cut)
  ELSE chunk

\* the buffer yield_file emits for a chunk
Emit(r, cp, chunk) ==
  IF r.part_count = 1 THEN Slice(chunk, r.first_part_cut, r.last_part_cut)
  ELSE IF cp = 1 THEN SliceFrom(chunk, r.first_part_cut)
  ELSE IF cp = r.part_count THEN SliceTo(chunk, r.last_part_cut)
  ELSE chunk

\* ------------------------------------------------------------------- state
VARIABLES
  req,            \* req[s]: the arguments of invocation s of yield_file
  pc,             \* pc[s]: the await / yield stream s is parked at
  result,         \* result[s]: how the invocation ended
  work_loads,     \* Thunder.bot.work_loads
  media_sessions, \* media_sessions[w][dc]: client.media_sessions of worker w
  started,        \* sessions whose start() was called
  stopped,        \* sessions whose stop() has run
  media_session,  \* media_session[s]: the session stream s holds
  attempt,        \* attempt[s]: loop variable of _authenticate_session
  abi,            \* abi[s]: AuthBytesInvalid replies stream s has received
  other,          \* other[s]: FloodWait / RPCError replies during authorization
  creates,        \* creates[s]: Auth.create() calls issued by stream s
  offset,         \* offset[s]
  current_part,   \* current_part[s]
  getfile,        \* getfile[s]: the last GetFile request stream s has issued
  emitted,        \* emitted[s]: the buffers stream s has yielded, with their offsets
  flooded,        \* flooded[s]: a GetFile of stream s was answered FloodWait
  imported,       \* the sessions on which an ImportAuthorization has succeeded
  exports,        \* exports[s]: ExportAuthorization calls of stream s answered
  exported_auth,  \* exported_auth[s]: id of the export the local variable holds
  import_auth,    \* import_auth[s]: id the last ImportAuthorization of s carried
  store,          \* store[m]: what get_file_ids returns for message m
  cached_file_ids,\* self.cached_file_ids
  cache_lock,     \* self.cache_lock: the task that holds it, or None
  rpc,            \* rpc[t]: the await invocation t of get_file_properties is at
  message_id,     \* message_id[t]
  file_id,        \* file_id[t]: what invocation t has returned (or raised)
  called,         \* called[t]: invocation t has called get_file_ids
  sweeps,         \* the number of sweeps clean_cache has made
  swept           \* swept[t]: a sweep ran while invocation t awaited get_file_ids

vars == <<req, pc, result, work_loads, media_sessions, started, stopped,
          media_session, attempt, abi, other, creates, offset, current_part,
          getfile, emitted, flooded, imported, exports, exported_auth,
          import_auth, store, cached_file_ids, cache_lock, rpc, message_id,
          file_id, called, sweeps, swept>>

\* the state of the cache and of the invocations of get_file_properties
cacheVars == <<store, cached_file_ids, cache_lock, rpc, message_id, file_id,
               called, sweeps, swept>>

\* the state of the streams and of the session pool
streamVars == <<req, pc, result, work_loads, media_sessions, started, stopped,
                media_session, attempt, abi, other, creates, offset,
                current_part, getfile, emitted, flooded, imported, exports,
                exported_auth, import_auth>>

NoGetFile == [offset |-> -1, limit |-> 0]

Idle == [s \in Streams |-> "idle"]

InitState ==
  /\ pc = Idle
  /\ result = [s \in Streams |-> "none"]
  /\ work_loads = [w \in Workers |-> 0]
  /\ media_sessions = [w \in Workers |-> [d \in DCs |-> None]]
  /\ started = {}
  /\ stopped = {}
  /\ media_session = [s \in Streams |-> None]
  /\ attempt = [s \in Streams |-> 0]
  /\ abi = [s \in Streams |-> 0]
  /\ other = [s \in Streams |-> 0]
  /\ creates = [s \in Streams |-> 0]
  /\ offset = [s \in Streams |-> 0]
  /\ current_part = [s \in Streams |-> 0]
  /\ getfile = [s \in Streams |-> NoGetFile]
  /\ emitted = [s \in Streams |-> <<>>]
  /\ flooded = [s \in Streams |-> FALSE]
  /\ imported = {}
  /\ exports = [s \in Streams |-> 0]
  /\ exported_auth = [s \in Streams |-> None]
  /\ import_auth = [s \in Streams |-> None]

\* the FileId get_file_ids builds from message m when it carries a file
FileIdOf(m) == [media_id |-> m]

\* Python's None where a FileId is expected
NoFileId == [media_id |-> 0]

\* the FileNotFound exception, where the result of an invocation is recorded
FileNotFound == [media_id |-> -1]

\* no invocation of get_file_properties is under way, the store is st and
\* the cache holds c
CacheState(st, c) ==
  /\ store = st
  /\ cached_file_ids = c
  /\ cache_lock = None
  /\ rpc = [t \in Resolvers |-> "idle"]
  /\ message_id = [t \in Resolvers |-> None]
  /\ file_id = [t \in Resolvers |-> NoFileId]
  /\ called = [t \in Resolvers |-> FALSE]
  /\ sweeps = 0
  /\ swept = [t \in Resolvers |-> FALSE]

\* every message carries a file
FullStore == [m \in Messages |-> FileIdOf(m)]

\* concurrent streams over one short file; workers are interchangeable and so
\* are the foreign data centers, hence stream 1 is on worker 1 and asks for
\* the home data center or the first foreign one.  The files streamed were
\* resolved before, so the cache holds them.
Init ==
  /\ req \in { f \in [Streams -> ConcRequests] :
                 /\ f[1].index = 1
                 /\ f[1].dc_id \in {client_dc_id, client_dc_id + 1} }
  /\ InitState
  /\ CacheState(FullStore, FullStore)

\* one stream, every file size, chunk size and byte range within the bounds
InitRange ==
  /\ req \in { f \in [Streams -> RangeRequests \cup {NoReq}] :
                 /\ f[1] # NoReq
                 /\ \A s \in Streams \ {1} : f[s] = NoReq }
  /\ InitState
  /\ CacheState(FullStore, FullStore)

\* a store channel whose first message carries no file
StoreWithGap == [m \in Messages |-> IF m = 1 THEN NoFileId ELSE FileIdOf(m)]

\* the engine right after construction, with an empty cache; one stream over
\* the short file, for the home data center, runs beside the invocations of
\* get_file_properties
InitCache ==
  /\ req \in { f \in [Streams -> ConcRequests \cup {NoReq}] :
                 /\ f[1] # NoReq
                 /\ f[1].index = 1
                 /\ f[1].dc_id = client_dc_id
                 /\ \A s \in Streams \ {1} : f[s] = NoReq }
  /\ InitState
  /\ CacheState(StoreWithGap, [m \in Messages |-> NoFileId])

\* ----------------------------------------------------------- yield_file
\* Release that resets the counter of the worker
ReleaseResets(s, wl) == [wl EXCEPT ![req[s].index] = 0]

\* the finally block: work_loads[index] -= 1
Release(s, wl) == [wl EXCEPT ![req[s].index] = @ - 1]

\* LoopHead with the loop running one part too far
LoopHeadOneMore(s, cp, off, wl) ==
  /\ current_part' = [current_part EXCEPT ![s] = cp]
  /\ offset' = [offset EXCEPT ![s] = off]
  /\ IF cp <= req[s].part_count + 1
       THEN /\ pc' = [pc EXCEPT ![s] = "getfile"]
            /\ getfile' = [getfile EXCEPT ![s] =
                             [offset |-> off, limit |-> req[s].chunk_size]]
            /\ work_loads' = wl
            /\ result' = result
       ELSE /\ pc' = [pc EXCEPT ![s] = "done"]
            /\ getfile' = getfile
            /\ work_loads' = Release(s, wl)
            /\ result' = [result EXCEPT ![s] = "complete"]

\* the head of "while current_part <= part_count" with current_part = cp,
\* offset = off and work_loads = wl: either the next GetFile is sent or the
\* loop is left and the finally block runs
LoopHead(s, cp, off, wl) ==
  /\ current_part' = [current_part EXCEPT ![s] = cp]
  /\ offset' = [offset EXCEPT ![s] = off]
  /\ IF cp <= req[s].part_count
       THEN /\ pc' = [pc EXCEPT ![s] = "getfile"]
            /\ getfile' = [getfile EXCEPT ![s] =
                             [offset |-> off, limit |-> req[s].chunk_size]]
            /\ work_loads' = wl
            /\ result' = result
       ELSE /\ pc' = [pc EXCEPT ![s] = "done"]
            /\ getfile' = getfile
            /\ work_loads' = Release(s, wl)
            /\ result' = [result EXCEPT ![s] = "complete"]

\* generate_media_session has its session: yield_file goes on to its loop
EnterLoop(s, sess, wl) ==
  /\ media_session' = [media_session EXCEPT ![s] = sess]
  /\ exported_auth' = [exported_auth EXCEPT ![s] = None]
  /\ import_auth' = [import_auth EXCEPT ![s] = None]
  /\ LoopHead(s, 1, req[s].offset, wl)

\* StoreSession without the assignment to client.media_sessions
StoreSessionNowhere(s, sess) ==
  /\ media_sessions' = media_sessions
  /\ EnterLoop(s, sess, work_loads)

\* _create_or_reuse_media_session returned sess: it is stored in the map
StoreSession(s, sess) ==
  /\ media_sessions' = [media_sessions EXCEPT ![req[s].index][req[s].dc_id] = sess]
  /\ EnterLoop(s, sess, work_loads)

\* first step of the generator, up to its first await
Start(s) ==
  /\ pc[s] = "idle"
  /\ req[s] # NoReq
  /\ LET w == req[s].index
         d == req[s].dc_id
         wl == [work_loads EXCEPT ![w] = @ + 1]
     IN IF media_sessions[w][d] # None
          THEN /\ EnterLoop(s, media_sessions[w][d], wl)
               /\ UNCHANGED <<started, creates>>
          ELSE /\ work_loads' = wl
               /\ UNCHANGED <<result, offset, current_part, getfile,
                              exported_auth, import_auth>>
               /\ IF d # client_dc_id
                    THEN /\ pc' = [pc EXCEPT ![s] = "auth_create"]
                         /\ creates' = [creates EXCEPT ![s] = @ + 1]
                         /\ UNCHANGED <<media_session, started>>
                    ELSE /\ pc' = [pc EXCEPT ![s] = "session_start_home"]
                         /\ media_session' = [media_session EXCEPT ![s] = s]
                         /\ started' = started \cup {s}
                         /\ UNCHANGED creates
  /\ UNCHANGED <<req, imported, exports, media_sessions, stopped, attempt, abi,
                 other, emitted, flooded>>
  /\ UNCHANGED cacheVars

\* same-DC path: session.start() returned
HomeSessionStarted(s) ==
  /\ pc[s] = "session_start_home"
  /\ StoreSession(s, media_session[s])
  /\ UNCHANGED <<req, imported, exports, started, stopped, attempt, abi, other,
                 creates, emitted, flooded>>
  /\ UNCHANGED cacheVars

\* ------------------------------------------- _create_media_session (cross DC)
\* AuthCreated that hands the session on without starting it
AuthCreatedNotStarted(s) ==
  /\ pc[s] = "auth_create"
  /\ pc' = [pc EXCEPT ![s] = "export"]
  /\ media_session' = [media_session EXCEPT ![s] = s]
  /\ attempt' = [attempt EXCEPT ![s] = 0]
  /\ UNCHANGED <<req, imported, exports, exported_auth, import_auth, result,
                 work_loads, media_sessions, started, stopped, abi, other,
                 creates, offset, current_part, getfile, emitted, flooded>>
  /\ UNCHANGED cacheVars

\* auth.create() returned the key: the Session is built and start() awaited
AuthCreated(s) ==
  /\ pc[s] = "auth_create"
  /\ pc' = [pc EXCEPT ![s] = "session_start"]
  /\ media_session' = [media_session EXCEPT ![s] = s]
  /\ started' = started \cup {s}
  /\ UNCHANGED <<req, imported, exports, exported_auth, import_auth, result,
                 work_loads, media_sessions, stopped, attempt, abi, other,
                 creates, offset, current_part, getfile, emitted, flooded>>
  /\ UNCHANGED cacheVars

\* auth.create() raised: the exception leaves yield_file before its try block
AuthCreateFailed(s) ==
  /\ pc[s] = "auth_create"
  /\ pc' = [pc EXCEPT ![s] = "done"]
  /\ result' = [result EXCEPT ![s] = "create_error"]
  /\ UNCHANGED <<req, imported, exports, exported_auth, import_auth,
                 work_loads, media_sessions, started, stopped, media_session,
                 attempt, abi, other, creates, offset, current_part, getfile,
                 emitted, flooded>>
  /\ UNCHANGED cacheVars

\* ------------------------------------------------------ _authenticate_session
\* NextAttempt with a loop of four rounds
NextAttemptFour(s, a) ==
  IF a + 1 < 4
    THEN /\ attempt' = [attempt EXCEPT ![s] = a + 1]
         /\ pc' = [pc EXCEPT ![s] = "export"]
         /\ UNCHANGED <<result, work_loads, media_sessions, media_session, offset,
                        current_part, getfile, exported_auth, import_auth>>
    ELSE /\ attempt' = attempt
         /\ StoreSession(s, media_session[s])

\* "for attempt in range(3)" goes on after attempt a: the next
\* ExportAuthorization is sent, or the function returns without a word and the
\* session goes into the map
NextAttempt(s, a) ==
  IF a + 1 < 3
    THEN /\ attempt' = [attempt EXCEPT ![s] = a + 1]
         /\ pc' = [pc EXCEPT ![s] = "export"]
         /\ UNCHANGED <<result, work_loads, media_sessions, media_session, offset,
                        current_part, getfile, exported_auth, import_auth>>
    ELSE /\ attempt' = attempt
         /\ StoreSession(s, media_session[s])

\* session.start() returned: attempt 0 sends ExportAuthorization
SessionStarted(s) ==
  /\ pc[s] = "session_start"
  /\ pc' = [pc EXCEPT ![s] = "export"]
  /\ attempt' = [attempt EXCEPT ![s] = 0]
  /\ UNCHANGED <<req, imported, exports, exported_auth, import_auth, result,
                 work_loads, media_sessions, started, stopped, media_session,
                 abi, other, creates, offset, current_part, getfile, emitted,
                 flooded>>
  /\ UNCHANGED cacheVars

\* the reply to client.invoke(ExportAuthorization)
ExportReply(s) ==
  /\ pc[s] = "export"
  /\ \E reply \in {"ok", "flood", "rpc"} :
       /\ pc' = [pc EXCEPT ![s] = CASE reply = "ok" -> "settle"
                                    [] reply = "flood" -> "auth_flood_sleep"
                                    [] reply = "rpc" -> "auth_rpc_sleep"]
       /\ other' = [other EXCEPT ![s] = IF reply = "ok" THEN @ ELSE @ + 1]
       /\ exported_auth' = [exported_auth EXCEPT ![s] =
                               IF reply = "ok" THEN exports[s] + 1 ELSE @]
  /\ exports' = [exports EXCEPT ![s] = @ + 1]
  /\ UNCHANGED <<req, imported, import_auth, result, work_loads,
                 media_sessions, started, stopped, media_session, attempt, abi,
                 creates, offset, current_part, getfile, emitted, flooded>>
  /\ UNCHANGED cacheVars

\* Settled with the bytes of the first export sent again at every retry
SettledReusesBytes(s) ==
  /\ pc[s] = "settle"
  /\ pc' = [pc EXCEPT ![s] = "import"]
  /\ import_auth' = [import_auth EXCEPT ![s] =
                       IF @ # None THEN @ ELSE exported_auth[s]]
  /\ UNCHANGED <<req, imported, exports, exported_auth, result, work_loads,
                 media_sessions, started, stopped, media_session, attempt, abi,
                 other, creates, offset, current_part, getfile, emitted,
                 flooded>>
  /\ UNCHANGED cacheVars

\* asyncio.sleep(1) is over: ImportAuthorization is sent on the new session
Settled(s) ==
  /\ pc[s] = "settle"
  /\ pc' = [pc EXCEPT ![s] = "import"]
  /\ import_auth' = [import_auth EXCEPT ![s] = exported_auth[s]]
  /\ UNCHANGED <<req, imported, exports, exported_auth, result, work_loads,
                 media_sessions, started, stopped, media_session, attempt, abi,
                 other, creates, offset, current_part, getfile, emitted,
                 flooded>>
  /\ UNCHANGED cacheVars

\* ImportAuthorization succeeded: _authenticate_session returns
ImportOk(s) ==
  /\ pc[s] = "import"
  /\ imported' = imported \cup {media_session[s]}
  /\ StoreSession(s, media_session[s])
  /\ UNCHANGED <<req, exports, started, stopped, attempt, abi, other, creates,
                 emitted, flooded>>
  /\ UNCHANGED cacheVars

\* ImportAuthBytesInvalid with the session stopped at every attempt
ImportAuthBytesInvalidStops(s) ==
  /\ pc[s] = "import"
  /\ abi' = [abi EXCEPT ![s] = @ + 1]
  /\ stopped' = stopped \cup {media_session[s]}
  /\ IF attempt[s] = 2
       THEN /\ pc' = [pc EXCEPT ![s] = "abi_sleep"]
            /\ UNCHANGED <<attempt, result, work_loads, media_sessions,
                           media_session, offset, current_part, getfile,
                           exported_auth, import_auth>>
       ELSE NextAttempt(s, attempt[s])
  /\ UNCHANGED <<req, imported, exports, started, other, creates, emitted,
                 flooded>>
  /\ UNCHANGED cacheVars

\* ImportAuthorization raised AuthBytesInvalid
ImportAuthBytesInvalid(s) ==
  /\ pc[s] = "import"
  /\ abi' = [abi EXCEPT ![s] = @ + 1]
  /\ IF attempt[s] = 2
       THEN /\ pc' = [pc EXCEPT ![s] = "abi_sleep"]
            /\ UNCHANGED <<attempt, result, work_loads, media_sessions,
                           media_session, offset, current_part, getfile,
                           exported_auth, import_auth>>
       ELSE NextAttempt(s, attempt[s])
  /\ UNCHANGED <<req, imported, exports, started, stopped, other, creates,
                 emitted, flooded>>
  /\ UNCHANGED cacheVars

\* ImportAuthorization raised FloodWait or another RPCError
ImportError(s) ==
  /\ pc[s] = "import"
  /\ \E reply \in {"flood", "rpc"} :
       pc' = [pc EXCEPT ![s] = IF reply = "flood" THEN "auth_flood_sleep"
                                                  ELSE "auth_rpc_sleep"]
  /\ other' = [other EXCEPT ![s] = @ + 1]
  /\ UNCHANGED <<req, imported, exports, exported_auth, import_auth, result,
                 work_loads, media_sessions, started, stopped, media_session,
                 attempt, abi, creates, offset, current_part, getfile, emitted,
                 flooded>>
  /\ UNCHANGED cacheVars

\* the sleep of an "except FloodWait" / "except RPCError" handler is over
AuthSlept(s) ==
  /\ pc[s] \in {"auth_flood_sleep", "auth_rpc_sleep"}
  /\ NextAttempt(s, attempt[s])
  /\ UNCHANGED <<req, imported, exports, started, stopped, abi, other, creates,
                 emitted, flooded>>
  /\ UNCHANGED cacheVars

\* third AuthBytesInvalid: asyncio.sleep(2) is over, session.stop() is awaited
AbiSlept(s) ==
  /\ pc[s] = "abi_sleep"
  /\ pc' = [pc EXCEPT ![s] = "stopping"]
  /\ UNCHANGED <<req, imported, exports, exported_auth, import_auth, result,
                 work_loads, media_sessions, started, stopped, media_session,
                 attempt, abi, other, creates, offset, current_part, getfile,
                 emitted, flooded>>
  /\ UNCHANGED cacheVars

\* SessionStopped with the exception swallowed: the session is handed out
SessionStoppedReturns(s) ==
  /\ pc[s] = "stopping"
  /\ stopped' = stopped \cup {media_session[s]}
  /\ StoreSession(s, media_session[s])
  /\ UNCHANGED <<req, imported, exports, started, attempt, abi, other, creates,
                 emitted, flooded>>
  /\ UNCHANGED cacheVars

\* session.stop() returned: AuthBytesInvalid is raised again and leaves
\* generate_media_session and yield_file
SessionStopped(s) ==
  /\ pc[s] = "stopping"
  /\ stopped' = stopped \cup {media_session[s]}
  /\ pc' = [pc EXCEPT ![s] = "done"]
  /\ result' = [result EXCEPT ![s] = "auth_failed"]
  /\ exported_auth' = [exported_auth EXCEPT ![s] = None]
  /\ import_auth' = [import_auth EXCEPT ![s] = None]
  /\ UNCHANGED <<req, imported, exports, work_loads, media_sessions, started,
                 media_session, attempt, abi, other, creates, offset,
                 current_part, getfile, emitted, flooded>>
  /\ UNCHANGED cacheVars

\* ------------------------------------------------- the loop of yield_file
\* Finish with the counter decremented by the handler and by the finally block
FinishTwice(s, r) ==
  /\ pc' = [pc EXCEPT ![s] = "done"]
  /\ result' = [result EXCEPT ![s] = r]
  /\ work_loads' = Release(s, Release(s, work_loads))

\* the finally block runs and the generator is finished with result r
Finish(s, r) ==
  /\ pc' = [pc EXCEPT ![s] = "done"]
  /\ result' = [result EXCEPT ![s] = r]
  /\ work_loads' = Release(s, work_loads)

\* GetFile returned an upload.File: the bytes of the file at the offset, or
\* no bytes at all
GetFileReply(s) ==
  /\ pc[s] = "getfile"
  /\ \E empty \in BOOLEAN :
       LET chunk == IF empty THEN <<>>
                    ELSE BackendChunk(req[s], getfile[s].offset, getfile[s].limit)
       IN IF chunk = <<>>
            THEN /\ Finish(s, "eof")
                 /\ emitted' = emitted
            ELSE /\ pc' = [pc EXCEPT ![s] = "yielded"]
                 /\ emitted' = [emitted EXCEPT ![s] =
                                  Append(@, [offset |-> getfile[s].offset,
                                             part |-> current_part[s],
                                             data |-> Emit(req[s], current_part[s], chunk)])]
                 /\ UNCHANGED <<result, work_loads>>
  /\ UNCHANGED <<req, imported, exports, exported_auth, import_auth,
                 media_sessions, started, stopped, media_session, attempt, abi,
                 other, creates, offset, current_part, getfile, flooded>>
  /\ UNCHANGED cacheVars

\* GetFileOtherType that leaves the loop without the finally block
GetFileOtherTypeKeepsLoad(s) ==
  /\ pc[s] = "getfile"
  /\ pc' = [pc EXCEPT ![s] = "done"]
  /\ result' = [result EXCEPT ![s] = "eof"]
  /\ UNCHANGED <<req, imported, exports, exported_auth, import_auth,
                 work_loads, media_sessions, started, stopped, media_session,
                 attempt, abi, other, creates, offset, current_part, getfile,
                 emitted, flooded>>
  /\ UNCHANGED cacheVars

\* GetFile returned something that is not an upload.File
GetFileOtherType(s) ==
  /\ pc[s] = "getfile"
  /\ Finish(s, "eof")
  /\ UNCHANGED <<req, imported, exports, exported_auth, import_auth,
                 media_sessions, started, stopped, media_session, attempt, abi,
                 other, creates, offset, current_part, getfile, emitted,
                 flooded>>
  /\ UNCHANGED cacheVars

\* GetFile raised FloodWait
GetFileFlood(s) ==
  /\ pc[s] = "getfile"
  /\ pc' = [pc EXCEPT ![s] = "flood_sleep"]
  /\ flooded' = [flooded EXCEPT ![s] = TRUE]
  /\ UNCHANGED <<req, imported, exports, exported_auth, import_auth, result,
                 work_loads, media_sessions, started, stopped, media_session,
                 attempt, abi, other, creates, offset, current_part, getfile,
                 emitted>>
  /\ UNCHANGED cacheVars

\* FloodSlept that gives the chunk up and goes on to the next one
FloodSleptSkips(s) ==
  /\ pc[s] = "flood_sleep"
  /\ LoopHead(s, current_part[s] + 1, offset[s] + req[s].chunk_size, work_loads)
  /\ UNCHANGED <<req, imported, exports, exported_auth, import_auth,
                 media_sessions, started, stopped, media_session, attempt, abi,
                 other, creates, emitted, flooded>>
  /\ UNCHANGED cacheVars

\* asyncio.sleep(e.value + 1) is over: back to the head of the loop
FloodSlept(s) ==
  /\ pc[s] = "flood_sleep"
  /\ LoopHead(s, current_part[s], offset[s], work_loads)
  /\ UNCHANGED <<req, imported, exports, exported_auth, import_auth,
                 media_sessions, started, stopped, media_session, attempt, abi,
                 other, creates, emitted, flooded>>
  /\ UNCHANGED cacheVars

\* GetFileError that tears the session down before it raises
GetFileErrorStopsSession(s) ==
  /\ pc[s] = "getfile"
  /\ Finish(s, "error")
  /\ stopped' = stopped \cup {media_session[s]}
  /\ UNCHANGED <<req, imported, exports, exported_auth, import_auth,
                 media_sessions, started, media_session, attempt, abi, other,
                 creates, offset, current_part, getfile, emitted, flooded>>
  /\ UNCHANGED cacheVars

\* GetFile raised RPCError or TimeoutError: the handler raises
GetFileError(s) ==
  /\ pc[s] = "getfile"
  /\ Finish(s, "error")
  /\ UNCHANGED <<req, imported, exports, exported_auth, import_auth,
                 media_sessions, started, stopped, media_session, attempt, abi,
                 other, creates, offset, current_part, getfile, emitted,
                 flooded>>
  /\ UNCHANGED cacheVars

\* Resume that advances offset by the length of the buffer it has yielded
ResumeByEmitted(s) ==
  /\ pc[s] = "yielded"
  /\ LoopHead(s, current_part[s] + 1,
              offset[s] + Len(emitted[s][Len(emitted[s])].data), work_loads)
  /\ UNCHANGED <<req, imported, exports, exported_auth, import_auth,
                 media_sessions, started, stopped, media_session, attempt, abi,
                 other, creates, emitted, flooded>>
  /\ UNCHANGED cacheVars

\* Resume without "offset += chunk_size"
ResumeSameOffset(s) ==
  /\ pc[s] = "yielded"
  /\ LoopHead(s, current_part[s] + 1, offset[s], work_loads)
  /\ UNCHANGED <<req, imported, exports, exported_auth, import_auth,
                 media_sessions, started, stopped, media_session, attempt, abi,
                 other, creates, emitted, flooded>>
  /\ UNCHANGED cacheVars

\* the consumer asks for the next buffer: the generator resumes after its yield
Resume(s) ==
  /\ pc[s] = "yielded"
  /\ LoopHead(s, current_part[s] + 1, offset[s] + req[s].chunk_size, work_loads)
  /\ UNCHANGED <<req, imported, exports, exported_auth, import_auth,
                 media_sessions, started, stopped, media_session, attempt, abi,
                 other, creates, emitted, flooded>>
  /\ UNCHANGED cacheVars

\* the suspension points inside the try block of yield_file
InTry == {"getfile", "yielded", "flood_sleep"}

\* the suspension points of generate_media_session, before the try block
InSession == {"auth_create", "session_start", "session_start_home", "export",
              "settle", "import", "auth_flood_sleep", "auth_rpc_sleep",
              "abi_sleep", "stopping"}

\* Cancel that never reaches the finally block
CancelKeepsLoad(s) ==
  /\ pc[s] \in InTry \cup InSession
  /\ pc' = [pc EXCEPT ![s] = "done"]
  /\ result' = [result EXCEPT ![s] = "cancelled"]
  /\ exported_auth' = [exported_auth EXCEPT ![s] = None]
  /\ import_auth' = [import_auth EXCEPT ![s] = None]
  /\ UNCHANGED <<req, imported, exports, work_loads, media_sessions, started,
                 stopped, media_session, attempt, abi, other, creates, offset,
                 current_part, getfile, emitted, flooded>>
  /\ UNCHANGED cacheVars

\* the task is cancelled (or the generator closed) where it is parked;
\* a session.stop() that is under way may or may not have taken effect
Cancel(s) ==
  /\ pc[s] \in InTry \cup InSession
  /\ pc' = [pc EXCEPT ![s] = "done"]
  /\ result' = [result EXCEPT ![s] = "cancelled"]
  /\ work_loads' = IF pc[s] \in InTry THEN Release(s, work_loads) ELSE work_loads
  /\ \/ stopped' = stopped
     \/ /\ pc[s] = "stopping"
        /\ stopped' = stopped \cup {media_session[s]}
  /\ exported_auth' = [exported_auth EXCEPT ![s] = None]
  /\ import_auth' = [import_auth EXCEPT ![s] = None]
  /\ UNCHANGED <<req, imported, exports, media_sessions, started,
                 media_session, attempt, abi, other, creates, offset,
                 current_part, getfile, emitted, flooded>>
  /\ UNCHANGED cacheVars

Next ==
  \E s \in Streams :
    \/ Start(s)
    \/ HomeSessionStarted(s)
    \/ AuthCreated(s)
    \/ AuthCreateFailed(s)
    \/ SessionStarted(s)
    \/ ExportReply(s)
    \/ Settled(s)
    \/ ImportOk(s)
    \/ ImportAuthBytesInvalid(s)
    \/ ImportError(s)
    \/ AuthSlept(s)
    \/ AbiSlept(s)
    \/ SessionStopped(s)
    \/ GetFileReply(s)
    \/ GetFileOtherType(s)
    \/ GetFileFlood(s)
    \/ FloodSlept(s)
    \/ GetFileError(s)
    \/ Resume(s)
    \/ Cancel(s)

Spec == Init /\ [][Next]_vars

SpecRange == InitRange /\ [][Next]_vars

\* every await of stream s returns: the backend answers each call, a sleep
\* ends, and the consumer of the generator asks for the next buffer
AwaitsReturn(s) ==
  /\ WF_vars(AuthCreated(s) \/ AuthCreateFailed(s))
  /\ WF_vars(SessionStarted(s))
  /\ WF_vars(HomeSessionStarted(s))
  /\ WF_vars(ExportReply(s))
  /\ WF_vars(Settled(s))
  /\ WF_vars(ImportOk(s) \/ ImportAuthBytesInvalid(s) \/ ImportError(s))
  /\ WF_vars(AuthSlept(s))
  /\ WF_vars(AbiSlept(s))
  /\ WF_vars(SessionStopped(s))
  /\ WF_vars(FloodSlept(s))
  /\ WF_vars(Resume(s))

\* the backend does not answer FloodWait to the GetFile of a chunk forever
FloodWaitEnds(s) ==
  SF_vars(GetFileReply(s) \/ GetFileOtherType(s) \/ GetFileError(s))

\* one stream, with every await returning and no endless FloodWait
SpecRangeFair ==
  /\ InitRange
  /\ [][Next]_vars
  /\ \A s \in Streams : AwaitsReturn(s) /\ FloodWaitEnds(s)

\* -------------------------------------------------- get_file_properties
\* GetFileProperties with the whole function body under the lock
GetFilePropertiesHoldsLock(t) ==
  /\ rpc[t] = "idle"
  /\ cache_lock = None
  /\ \E m \in Messages :
       /\ message_id' = [message_id EXCEPT ![t] = m]
       /\ IF cached_file_ids[m] # NoFileId
            THEN /\ file_id' = [file_id EXCEPT ![t] = cached_file_ids[m]]
                 /\ called' = [called EXCEPT ![t] = FALSE]
                 /\ rpc' = rpc
                 /\ cache_lock' = None
            ELSE /\ file_id' = [file_id EXCEPT ![t] = NoFileId]
                 /\ called' = [called EXCEPT ![t] = TRUE]
                 /\ rpc' = [rpc EXCEPT ![t] = "get_file_ids"]
                 /\ cache_lock' = t
  /\ swept' = [swept EXCEPT ![t] = FALSE]
  /\ UNCHANGED <<store, cached_file_ids, sweeps>>
  /\ UNCHANGED streamVars

\* get_file_properties(m) up to its first await: the cache is read under the
\* lock; a hit returns at once, a miss calls get_file_ids
GetFileProperties(t) ==
  /\ rpc[t] = "idle"
  /\ cache_lock = None
  /\ \E m \in Messages :
       /\ message_id' = [message_id EXCEPT ![t] = m]
       /\ IF cached_file_ids[m] # NoFileId
            THEN /\ file_id' = [file_id EXCEPT ![t] = cached_file_ids[m]]
                 /\ called' = [called EXCEPT ![t] = FALSE]
                 /\ rpc' = rpc
            ELSE /\ file_id' = [file_id EXCEPT ![t] = NoFileId]
                 /\ called' = [called EXCEPT ![t] = TRUE]
                 /\ rpc' = [rpc EXCEPT ![t] = "get_file_ids"]
  /\ cache_lock' = None
  /\ swept' = [swept EXCEPT ![t] = FALSE]
  /\ UNCHANGED <<store, cached_file_ids, sweeps>>
  /\ UNCHANGED streamVars

\* FilePropertiesGenerated without the write to the cache
FilePropertiesNotCached(t) ==
  /\ rpc[t] = "get_file_ids"
  /\ store[message_id[t]] # NoFileId
  /\ file_id' = [file_id EXCEPT ![t] = store[message_id[t]]]
  /\ rpc' = [rpc EXCEPT ![t] = "idle"]
  /\ UNCHANGED <<store, cached_file_ids, cache_lock, message_id,
                 called, sweeps, swept>>
  /\ UNCHANGED streamVars

\* FilePropertiesGenerated with the key taken from an attribute that a
\* concurrent invocation may have overwritten
FilePropertiesSharedKey(t) ==
  /\ rpc[t] = "get_file_ids"
  /\ store[message_id[t]] # NoFileId
  /\ cache_lock = None
  /\ \E u \in Resolvers :
       /\ rpc[u] = "get_file_ids"
       /\ cached_file_ids' =
            [cached_file_ids EXCEPT ![message_id[u]] = store[message_id[t]]]
  /\ file_id' = [file_id EXCEPT ![t] = store[message_id[t]]]
  /\ rpc' = [rpc EXCEPT ![t] = "idle"]
  /\ cache_lock' = None
  /\ UNCHANGED <<store, message_id, called, sweeps, swept>>
  /\ UNCHANGED streamVars

\* get_file_ids returned a FileId: it is put into the cache under the lock
\* and returned
FilePropertiesGenerated(t) ==
  /\ rpc[t] = "get_file_ids"
  /\ store[message_id[t]] # NoFileId
  /\ cache_lock = None
  /\ cached_file_ids' = [cached_file_ids EXCEPT ![message_id[t]] = store[message_id[t]]]
  /\ file_id' = [file_id EXCEPT ![t] = store[message_id[t]]]
  /\ rpc' = [rpc EXCEPT ![t] = "idle"]
  /\ cache_lock' = None
  /\ UNCHANGED <<store, message_id, called, sweeps, swept>>
  /\ UNCHANGED streamVars

\* FileNotFoundRaised that remembers the miss in the cache
FileNotFoundCached(t) ==
  /\ rpc[t] = "get_file_ids"
  /\ store[message_id[t]] = NoFileId
  /\ cache_lock = None
  /\ cached_file_ids' = [cached_file_ids EXCEPT ![message_id[t]] = FileNotFound]
  /\ file_id' = [file_id EXCEPT ![t] = FileNotFound]
  /\ rpc' = [rpc EXCEPT ![t] = "idle"]
  /\ UNCHANGED <<store, cache_lock, message_id, called, sweeps, swept>>
  /\ UNCHANGED streamVars

\* get_file_ids returned nothing: generate_file_properties raises FileNotFound
FileNotFoundRaised(t) ==
  /\ rpc[t] = "get_file_ids"
  /\ store[message_id[t]] = NoFileId
  /\ file_id' = [file_id EXCEPT ![t] = FileNotFound]
  /\ rpc' = [rpc EXCEPT ![t] = "idle"]
  /\ UNCHANGED <<store, cached_file_ids, cache_lock, message_id,
                 called, sweeps, swept>>
  /\ UNCHANGED streamVars

\* ------------------------------------------------------------ clean_cache
\* CleanCache that evicts one entry per sweep
CleanCacheOneEntry ==
  /\ sweeps < MaxSweeps
  /\ cache_lock = None
  /\ cached_file_ids' =
       IF \E m \in Messages : cached_file_ids[m] # NoFileId
         THEN [cached_file_ids EXCEPT
                 ![CHOOSE m \in Messages : cached_file_ids[m] # NoFileId] = NoFileId]
         ELSE cached_file_ids
  /\ sweeps' = sweeps + 1
  /\ swept' = [t \in Resolvers |-> swept[t] \/ rpc[t] = "get_file_ids"]
  /\ cache_lock' = None
  /\ UNCHANGED <<store, rpc, message_id, file_id, called>>
  /\ UNCHANGED streamVars

\* asyncio.sleep(clean_timer) is over: the cache is cleared under the lock
CleanCache ==
  /\ sweeps < MaxSweeps
  /\ cache_lock = None
  /\ cached_file_ids' = [m \in Messages |-> NoFileId]
  /\ sweeps' = sweeps + 1
  /\ swept' = [t \in Resolvers |-> swept[t] \/ rpc[t] = "get_file_ids"]
  /\ cache_lock' = None
  /\ UNCHANGED <<store, rpc, message_id, file_id, called>>
  /\ UNCHANGED streamVars

\* the steps of a stream for the home data center: no Auth.create(), no
\* export and no import
NextHome ==
  \E s \in Streams :
    \/ Start(s)
    \/ HomeSessionStarted(s)
    \/ GetFileReply(s)
    \/ GetFileOtherType(s)
    \/ GetFileFlood(s)
    \/ FloodSlept(s)
    \/ GetFileError(s)
    \/ Resume(s)
    \/ Cancel(s)

NextCache ==
  \/ NextHome
  \/ \E t \in Resolvers :
       \/ GetFileProperties(t)
       \/ FilePropertiesGenerated(t)
       \/ FileNotFoundRaised(t)
  \/ CleanCache

SpecCache == InitCache /\ [][NextCache]_vars

TypeOK ==
  /\ pc \in [Streams -> {"idle", "done"} \cup InTry \cup InSession]
  /\ \A s \in Streams : attempt[s] \in 0..2

\* ------------------------------------------------------------- properties
RECURSIVE Concat(_)
\* the concatenation of the data of a sequence of emitted buffers
Concat(bufs) == IF bufs = <<>> THEN <<>> ELSE Head(bufs).data \o Concat(Tail(bufs))

RECURSIVE Sum(_, _)
\* the sum of f over the set S
Sum(f, S) == IF S = {} THEN 0
             ELSE LET x == CHOOSE x \in S : TRUE IN f[x] + Sum(f, S \ {x})

Active == {s \in Streams : req[s] # NoReq}

\* the streams that ask worker w for data center d
StreamsOf(w, d) == {s \in Active : req[s].index = w /\ req[s].dc_id = d}

\* C1: byte exactness - a stream that has run through all its parts has
\* emitted bytes R0 .. R1 of the file, R1 - R0 + 1 of them.
ByteExactness ==
  \A s \in Active :
    result[s] = "complete" =>
      /\ Concat(emitted[s]) = FileBytes(req[s].range_start, req[s].range_end + 1)
      /\ Len(Concat(emitted[s])) = req[s].range_end - req[s].range_start + 1

\* a stream of three parts or more, cut at its head and at its tail, is complete
ByteExactnessWitness ==
  \E s \in Active :
    /\ result[s] = "complete"
    /\ req[s].part_count >= 3
    /\ req[s].first_part_cut > 0
    /\ req[s].last_part_cut < req[s].chunk_size

\* C2: work-load conservation - once every invocation has terminated the sum
\* of work_loads is back at its value before the invocations (0).
WorkLoadConservation ==
  (\A s \in Streams : pc[s] \in {"idle", "done"}) => Sum(work_loads, Workers) = 0

\* C3: at-most-once session creation - for one worker and data center no two
\* Auth.create() are issued, no two live sessions exist, and all streams that
\* hold a session hold the same one.
AtMostOnceSessionCreation ==
  \A w \in Workers, d \in DCs :
    /\ Sum(creates, StreamsOf(w, d)) <= 1
    /\ Cardinality({x \in started \ stopped : x \in StreamsOf(w, d)}) <= 1
    /\ \A s, t \in StreamsOf(w, d) :
         (pc[s] \in InTry /\ pc[t] \in InTry) => media_session[s] = media_session[t]

\* C4: mixed retry budgets - only AuthBytesInvalid replies use up attempts, and
\* authorization fails exactly after three of them.
MixedRetryBudgets ==
  \A s \in Active :
    /\ pc[s] \in {"export", "settle", "import"} => attempt[s] = abi[s]
    /\ result[s] = "auth_failed" => abi[s] = 3
    /\ abi[s] = 3 => (pc[s] \in {"abi_sleep", "stopping"}
                        \/ result[s] \in {"auth_failed", "cancelled"})

\* C5: cancellation at any suspension point - the step that cancels a stream
\* takes its increment of work_loads back and leaves the session map and the
\* GetFile requests as they are.
CancelAnywhere ==
  [][\A s \in Active :
       (result[s] = "none" /\ result'[s] = "cancelled") =>
         /\ work_loads'[req[s].index] = work_loads[req[s].index] - 1
         /\ media_sessions' = media_sessions
         /\ getfile' = getfile]_vars

\* C6: AuthFailed outcome - the step that raises AuthBytesInvalid out of
\* yield_file has stopped the session and leaves the session map alone; a
\* stopped session is in no session map; and a request that finds no entry
\* for a foreign data center issues a new Auth.create().
AuthFailedOutcome ==
  /\ [](\A w \in Workers, d \in DCs : media_sessions[w][d] \notin stopped)
  /\ [](\A s \in Active :
          result[s] = "auth_failed" =>
            /\ pc[s] = "done"
            /\ media_session[s] \in stopped
            /\ media_sessions[req[s].index][req[s].dc_id] # media_session[s])
  /\ [][\A s \in Active :
          /\ (result[s] = "none" /\ result'[s] = "auth_failed") =>
               media_sessions' = media_sessions
          /\ (pc[s] = "idle" /\ pc'[s] # "idle"
                /\ media_sessions[req[s].index][req[s].dc_id] = None
                /\ req[s].dc_id # client_dc_id) =>
               (creates'[s] = creates[s] + 1 /\ pc'[s] = "auth_create")]_vars

\* authorization of one stream has failed and the other stream has issued its
\* own Auth.create() for the same worker and data center
AuthFailedWitness ==
  \E s, t \in Active :
    /\ s # t
    /\ result[s] = "auth_failed"
    /\ abi[s] = 3
    /\ t \in StreamsOf(req[s].index, req[s].dc_id)
    /\ creates[t] = 1
    /\ media_sessions[req[s].index][req[s].dc_id] = None

\* stream s got AuthBytesInvalid twice and then its import went through
LateSuccess(s) ==
  /\ abi[s] = 2
  /\ other[s] = 0
  /\ attempt[s] = 2
  /\ pc[s] \in InTry \/ result[s] \in {"complete", "eof", "error"}

\* C7: session reuse after late success - the session whose third import went
\* through is not stopped and is the one stored for its data center; a request
\* that finds a session stored takes it and goes straight to its GetFile,
\* without Auth.create, ExportAuthorization or ImportAuthorization.
ReuseAfterLateSuccess ==
  /\ [](\A s \in Active : LateSuccess(s) => media_session[s] \notin stopped)
  /\ [][\A s \in Active :
          /\ (pc[s] = "import" /\ abi[s] = 2 /\ other[s] = 0 /\ pc'[s] \in InTry) =>
               /\ media_sessions'[req[s].index][req[s].dc_id] = media_session[s]
               /\ media_session'[s] = media_session[s]
          /\ (pc[s] = "idle" /\ pc'[s] # "idle"
                /\ media_sessions[req[s].index][req[s].dc_id] # None) =>
               /\ media_session'[s] = media_sessions[req[s].index][req[s].dc_id]
               /\ media_sessions' = media_sessions
               /\ creates' = creates
               /\ started' = started
               /\ pc'[s] = "getfile"]_vars

\* a second stream fetches on the session the first one got on its third import
ReuseAfterLateSuccessWitness ==
  \E s, t \in Active :
    /\ s # t
    /\ LateSuccess(s)
    /\ media_sessions[req[s].index][req[s].dc_id] = media_session[s]
    /\ pc[t] = "getfile"
    /\ media_session[t] = media_session[s]
    /\ creates[t] = 0
    /\ attempt[t] = 0

\* C8: alignment - every GetFile a stream issues has an offset that is a
\* multiple of chunk_size and a limit of chunk_size.
Alignment ==
  \A s \in Active :
    getfile[s] # NoGetFile =>
      /\ getfile[s].offset % req[s].chunk_size = 0
      /\ getfile[s].limit = req[s].chunk_size

\* a GetFile beyond the first chunk is out again after a FloodWait
AlignmentWitness ==
  \E s \in Active :
    /\ flooded[s]
    /\ pc[s] = "getfile"
    /\ getfile[s].offset > 0
    /\ req[s].first_part_cut > 0

\* C9: in-order sequential fetching - the k-th buffer comes from
\* offset + (k-1) * chunk_size, and the GetFile of part k is out only when
\* exactly the k-1 buffers before it were emitted and taken.
InOrderFetching ==
  \A s \in Active :
    /\ \A k \in 1..Len(emitted[s]) :
         /\ emitted[s][k].part = k
         /\ emitted[s][k].offset = req[s].offset + (k - 1) * req[s].chunk_size
    /\ pc[s] \in {"getfile", "flood_sleep"} =>
         /\ Len(emitted[s]) = current_part[s] - 1
         /\ getfile[s].offset = req[s].offset + Len(emitted[s]) * req[s].chunk_size
    /\ pc[s] = "yielded" =>
         /\ Len(emitted[s]) = current_part[s]
         /\ getfile[s].offset = emitted[s][Len(emitted[s])].offset

\* the GetFile of a third part is out
InOrderFetchingWitness ==
  \E s \in Active :
    /\ pc[s] = "getfile"
    /\ Len(emitted[s]) = 2
    /\ current_part[s] = 3

RECURSIVE FloodFreeRun(_, _, _)
\* the buffers of the run of yield_file's loop in which every GetFile is
\* answered with the bytes of the file, from part cp and offset off on
FloodFreeRun(r, cp, off) ==
  IF cp > r.part_count THEN <<>>
  ELSE <<Emit(r, cp, BackendChunk(r, off, r.chunk_size))>>
         \o FloodFreeRun(r, cp + 1, off + r.chunk_size)

\* C10: flood-control retry - after a FloodWait the same GetFile goes out
\* again with current_part and offset as they were, and the buffers emitted
\* are those of the flood-free run, all of them when the stream is complete.
FloodRetry ==
  /\ [](\A s \in Active :
          LET run == FloodFreeRun(req[s], 1, req[s].offset)
          IN /\ Len(emitted[s]) <= Len(run)
             /\ \A k \in 1..Len(emitted[s]) : emitted[s][k].data = run[k]
             /\ result[s] = "complete" => Len(emitted[s]) = Len(run))
  /\ [][\A s \in Active :
          pc[s] = "flood_sleep" /\ pc'[s] # "done" =>
            /\ pc'[s] = "getfile"
            /\ getfile'[s] = getfile[s]
            /\ current_part'[s] = current_part[s]
            /\ offset'[s] = offset[s]]_vars

\* a stream of two parts or more that was answered FloodWait is complete
FloodRetryWitness ==
  \E s \in Active :
    /\ flooded[s]
    /\ result[s] = "complete"
    /\ req[s].part_count >= 2

\* C11: backend error in the fetch loop - the step in which a GetFile raises
\* RPCError or TimeoutError ends the stream with an error: work_loads[index]
\* is decremented, nothing is emitted, no session is stopped, the session map
\* is as it was; and a stream that has ended issues no GetFile any more.
BackendErrorFails ==
  /\ [](\A s \in Active :
          result[s] = "error" => (pc[s] = "done" /\ media_session[s] \notin stopped))
  /\ [][\A s \in Active :
          /\ (result[s] = "none" /\ result'[s] = "error") =>
               /\ pc[s] = "getfile"
               /\ work_loads'[req[s].index] = work_loads[req[s].index] - 1
               /\ emitted' = emitted
               /\ stopped' = stopped
               /\ media_sessions' = media_sessions
               /\ media_sessions'[req[s].index][req[s].dc_id] # None
          /\ pc[s] = "done" => (getfile'[s] = getfile[s] /\ pc'[s] = "done")]_vars

\* a stream has failed at its second GetFile
BackendErrorWitness ==
  \E s \in Active :
    /\ result[s] = "error"
    /\ Len(emitted[s]) = 1
    /\ getfile[s].offset = req[s].offset + req[s].chunk_size

\* C12: early end of stream - the step in which a GetFile returns no bytes, or
\* something that is not a file chunk, ends the stream without an error: the
\* buffers of the parts before it are what was emitted, work_loads[index] is
\* decremented and no GetFile follows.
EarlyEnd ==
  /\ [](\A s \in Active :
          result[s] = "eof" =>
            /\ pc[s] = "done"
            /\ Len(emitted[s]) = current_part[s] - 1
            /\ Len(emitted[s]) < req[s].part_count)
  /\ [][\A s \in Active :
          /\ (result[s] = "none" /\ result'[s] = "eof") =>
               /\ pc[s] = "getfile"
               /\ work_loads'[req[s].index] = work_loads[req[s].index] - 1
               /\ emitted' = emitted
               /\ getfile' = getfile
          /\ result[s] = "eof" =>
               (getfile'[s] = getfile[s] /\ emitted'[s] = emitted[s]
                  /\ result'[s] = "eof")]_vars

\* a stream of three parts or more has ended at its second GetFile
EarlyEndWitness ==
  \E s \in Active :
    /\ result[s] = "eof"
    /\ Len(emitted[s]) = 1
    /\ req[s].part_count >= 3

\* C13: cancellation mid-stream - the step that closes a generator parked at
\* its yield decrements work_loads[index], which is then at its value from
\* before the call, and leaves the GetFile requests, the cache, the session
\* map and the sessions as they are; the session stays in the map, not stopped.
CancelMidStream ==
  /\ [](\A s \in Active :
          (result[s] = "cancelled" /\ pc[s] = "done" /\ emitted[s] # <<>>
             /\ \A t \in Active \ {s} : pc[t] \in {"idle"}) =>
            work_loads[req[s].index] = 0)
  /\ [][\A s \in Active :
          /\ (pc[s] = "yielded" /\ result'[s] = "cancelled") =>
               /\ pc'[s] = "done"
               /\ work_loads'[req[s].index] = work_loads[req[s].index] - 1
               /\ getfile' = getfile
               /\ cached_file_ids' = cached_file_ids
               /\ media_sessions' = media_sessions
               /\ stopped' = stopped
               /\ media_sessions'[req[s].index][req[s].dc_id] # None
               /\ media_session[s] \notin stopped'
          /\ result[s] = "cancelled" =>
               (getfile'[s] = getfile[s] /\ result'[s] = "cancelled")]_vars

\* a stream of three parts was cancelled after its first buffer, with files
\* in the cache
CancelMidStreamWitness ==
  \E s \in Active :
    /\ result[s] = "cancelled"
    /\ Len(emitted[s]) = 1
    /\ getfile[s].offset = req[s].offset
    /\ req[s].part_count = 3
    /\ work_loads[req[s].index] = 0
    /\ \E m \in Messages : cached_file_ids[m] # NoFileId

EmptyCache == [m \in Messages |-> NoFileId]

\* the step is the first one of an invocation of get_file_properties by t
Begins(t) ==
  /\ rpc[t] = "idle"
  /\ <<rpc[t], message_id[t], file_id[t], called[t]>>'
       # <<rpc[t], message_id[t], file_id[t], called[t]>>

\* the step is the one in which get_file_ids returns to t
Returns(t) == rpc[t] = "get_file_ids" /\ rpc'[t] = "idle"

\* C14: resolve through the cache - an invocation that finds its message in
\* the cache returns the cached FileId and does not call get_file_ids; one
\* that does not find it calls get_file_ids once, and what that returns is put
\* into the cache under the message id and returned.
ResolveThroughCache ==
  [][\A t \in Resolvers :
       /\ Begins(t) =>
            IF cached_file_ids[message_id'[t]] # NoFileId
              THEN /\ rpc'[t] = "idle"
                   /\ file_id'[t] = cached_file_ids[message_id'[t]]
                   /\ ~called'[t]
                   /\ cached_file_ids' = cached_file_ids
              ELSE /\ rpc'[t] = "get_file_ids"
                   /\ called'[t]
                   /\ cached_file_ids' = cached_file_ids
       /\ (Returns(t) /\ store[message_id[t]] # NoFileId) =>
            /\ file_id'[t] = store[message_id[t]]
            /\ cached_file_ids' =
                 [cached_file_ids EXCEPT ![message_id[t]] = store[message_id[t]]]
            /\ called'[t]
            /\ message_id'[t] = message_id[t]]_vars

\* one invocation has fetched a message, the other one has got it from the
\* cache, and a third one fetches it again after a sweep
ResolveThroughCacheWitness ==
  \E t, u \in Resolvers :
    /\ t # u
    /\ rpc[t] = "get_file_ids"
    /\ sweeps = 1
    /\ rpc[u] = "idle"
    /\ message_id[u] = message_id[t]
    /\ ~called[u]
    /\ file_id[u] = FileIdOf(message_id[u])

\* C15: NotFound leaves the cache unchanged - when get_file_ids has nothing for
\* the message the invocation raises FileNotFound and the cache is as it was;
\* the cache never holds an entry for such a message, so the next invocation
\* for it calls get_file_ids again.
NotFoundLeavesCache ==
  /\ [](\A m \in Messages : store[m] = NoFileId => cached_file_ids[m] = NoFileId)
  /\ [][\A t \in Resolvers :
          /\ (Returns(t) /\ store[message_id[t]] = NoFileId) =>
               /\ file_id'[t] = FileNotFound
               /\ cached_file_ids' = cached_file_ids
          /\ (Begins(t) /\ store[message_id'[t]] = NoFileId) =>
               (rpc'[t] = "get_file_ids" /\ called'[t])]_vars

\* one invocation has raised FileNotFound and another one for the same
\* message is calling get_file_ids while the cache holds another message
NotFoundWitness ==
  \E t, u \in Resolvers :
    /\ t # u
    /\ rpc[t] = "idle"
    /\ file_id[t] = FileNotFound
    /\ message_id[u] = message_id[t]
    /\ rpc[u] = "get_file_ids"
    /\ cached_file_ids # EmptyCache

\* C16: cache sweep - every sweep leaves the cache empty, whatever it held,
\* also when it is empty already, and changes neither the session map nor
\* work_loads nor anything else of the streams.
CacheSweep ==
  /\ [](sweeps \in 0..MaxSweeps)
  /\ [][sweeps' # sweeps =>
          /\ sweeps' = sweeps + 1
          /\ cached_file_ids' = EmptyCache
          /\ cache_lock' = cache_lock
          /\ media_sessions' = media_sessions
          /\ work_loads' = work_loads
          /\ UNCHANGED streamVars
          /\ UNCHANGED <<rpc, message_id, file_id, called>>]_vars

\* two sweeps have run; an invocation had put its message into the cache, a
\* stream is under way on a session of the map
CacheSweepWitness ==
  /\ sweeps = 2
  /\ cached_file_ids = EmptyCache
  /\ \E t \in Resolvers :
       rpc[t] = "idle" /\ called[t] /\ file_id[t] = FileIdOf(message_id[t])
  /\ \E s \in Active :
       /\ pc[s] \in InTry
       /\ media_sessions[req[s].index][req[s].dc_id] = media_session[s]
       /\ work_loads[req[s].index] = 1

\* C17: cache lock discipline - no task holds the cache lock at any of its
\* suspension points, and every step changes the cache by one operation of
\* the map: one entry written, or all entries cleared.
CacheLockDiscipline ==
  /\ [](cache_lock = None)
  /\ [][cached_file_ids' # cached_file_ids =>
          \/ cached_file_ids' = EmptyCache
          \/ \E m \in Messages :
               cached_file_ids' = [cached_file_ids EXCEPT ![m] = store[m]]]_vars

\* both invocations are suspended in get_file_ids after a sweep, and the lock
\* is free
CacheLockWitness ==
  /\ \A t \in Resolvers : rpc[t] = "get_file_ids"
  /\ sweeps >= 1
  /\ cached_file_ids # EmptyCache
  /\ cache_lock = None

\* the suspension points of _authenticate_session
InAuth == {"export", "settle", "import", "auth_flood_sleep", "auth_rpc_sleep",
           "abi_sleep", "stopping"}

\* C18: same-DC versus cross-DC path - a first access to the home data
\* center starts a session without Auth.create() and goes on to the loop
\* without export or import; a first access to a foreign one issues
\* Auth.create(), then starts the session, and only a started session enters
\* the import-authorization procedure.
SessionPaths ==
  /\ [](\A s \in Active :
          /\ req[s].dc_id = client_dc_id =>
               (creates[s] = 0 /\ pc[s] \notin InAuth \cup {"auth_create", "session_start"}
                  /\ attempt[s] = 0 /\ abi[s] = 0 /\ other[s] = 0)
          /\ pc[s] \in InAuth \cup {"session_start"} =>
               (creates[s] = 1 /\ s \in started /\ media_session[s] = s))
  /\ [][\A s \in Active :
          /\ (pc[s] = "idle" /\ pc'[s] # "idle"
                /\ media_sessions[req[s].index][req[s].dc_id] = None) =>
               IF req[s].dc_id = client_dc_id
                 THEN pc'[s] = "session_start_home" /\ s \in started'
                        /\ creates' = creates
                 ELSE pc'[s] = "auth_create" /\ s \notin started'
                        /\ creates'[s] = 1
          /\ (pc[s] = "session_start_home" /\ pc'[s] # pc[s]) =>
               (pc'[s] \in {"getfile", "done"} /\ creates' = creates)
          /\ (pc[s] = "auth_create" /\ pc'[s] # pc[s]) =>
               (pc'[s] = "done" \/ (pc'[s] = "session_start" /\ s \in started'))
          /\ (pc'[s] = "export" /\ pc[s] # "export") =>
               /\ pc[s] \in {"session_start", "import", "auth_flood_sleep",
                             "auth_rpc_sleep"}
               /\ s \in started]_vars

\* one stream fetches on a home session it has started itself while the other
\* one is in ImportAuthorization on a session created for a foreign data center
SessionPathsWitness ==
  \E s, t \in Active :
    /\ req[s].dc_id = client_dc_id
    /\ pc[s] = "getfile"
    /\ media_session[s] = s
    /\ req[t].dc_id # client_dc_id
    /\ pc[t] = "import"
    /\ creates[t] = 1

\* C19 as stated: the streamer never increments work_loads.
StreamerNeverIncrements ==
  [][\A w \in Workers : work_loads'[w] <= work_loads[w]]_vars

\* C19 as amended: yield_file itself increments work_loads[index], by one, in
\* its first step, and it decrements it, by one, in the step in which it
\* leaves its try block.
WorkLoadWriters ==
  [][\A w \in Workers :
       /\ work_loads'[w] > work_loads[w] =>
            /\ work_loads'[w] = work_loads[w] + 1
            /\ \E s \in Active :
                 req[s].index = w /\ pc[s] = "idle" /\ pc'[s] # "idle"
       /\ work_loads'[w] < work_loads[w] =>
            /\ work_loads'[w] = work_loads[w] - 1
            /\ \E s \in Active :
                 req[s].index = w /\ pc[s] \in InTry /\ pc'[s] = "done"]_vars

\* of two streams on one worker one has run to its end and the other one is
\* still fetching
WorkLoadWritersWitness ==
  \E s, t \in Active :
    /\ s # t
    /\ req[s].index = req[t].index
    /\ result[s] = "complete"
    /\ pc[t] = "getfile"
    /\ emitted[t] # <<>>
    /\ work_loads[req[s].index] = 1

\* C20: in-flight accounting - work_loads[w] is the number of streams on
\* worker w that have begun and not yet terminated.
InFlightAccounting ==
  \A w \in Workers :
    work_loads[w] =
      Cardinality({s \in Active : req[s].index = w /\ pc[s] \notin {"idle", "done"}})

\* the backend has the whole chunk of emitted buffer e of stream s to return
FullChunk(s, e) == e.offset + req[s].chunk_size <= req[s].file_size

\* C21: trim identities - where the backend returned a full chunk of
\* chunk_size bytes, the only buffer of a one-part stream has length
\* last_cut - first_cut; of a longer stream the first buffer has length
\* chunk_size - first_cut, the last one last_cut and the others chunk_size.
TrimIdentities ==
  \A s \in Active :
    \A k \in 1..Len(emitted[s]) :
      LET e == emitted[s][k]
          r == req[s]
      IN FullChunk(s, e) =>
           Len(e.data) = IF r.part_count = 1
                           THEN r.last_part_cut - r.first_part_cut
                         ELSE IF e.part = 1
                           THEN r.chunk_size - r.first_part_cut
                         ELSE IF e.part = r.part_count
                           THEN r.last_part_cut
                         ELSE r.chunk_size

\* a complete stream of three full chunks, the first one cut at its head and
\* the last one at its tail
TrimIdentitiesWitness ==
  \E s \in Active :
    /\ result[s] = "complete"
    /\ req[s].part_count = 3
    /\ Len(emitted[s]) = 3
    /\ \A k \in 1..3 : FullChunk(s, emitted[s][k])
    /\ req[s].first_part_cut > 0
    /\ req[s].last_part_cut < req[s].chunk_size

\* C22: finite stream - a stream never emits more than part_count buffers,
\* and, when every await returns and FloodWait is not the answer to a chunk
\* forever, a stream that is in its loop leaves it and runs the release step:
\* it is finished and its worker's counter is back at zero.
FiniteStream ==
  /\ [](\A s \in Active : Len(emitted[s]) <= req[s].part_count)
  /\ \A s \in Streams :
       (pc[s] \in InTry) ~>
         (pc[s] = "done" /\ s \in Active /\ work_loads[req[s].index] = 0)

\* a stream that was answered FloodWait has emitted all its buffers, two or
\* more, and has released its worker
FiniteStreamWitness ==
  \E s \in Active :
    /\ pc[s] = "done"
    /\ flooded[s]
    /\ req[s].part_count >= 2
    /\ Len(emitted[s]) = req[s].part_count
    /\ work_loads[req[s].index] = 0

\* C23: stopped sessions are never used - the session map holds no stopped
\* session, no ImportAuthorization and no GetFile is under way on a stopped
\* session, and the stream that holds a stopped session has ended.
StoppedNeverUsed ==
  /\ \A w \in Workers, d \in DCs :
       media_sessions[w][d] # None => media_sessions[w][d] \notin stopped
  /\ \A s \in Active :
       /\ pc[s] \in {"import", "getfile"} => media_session[s] \notin stopped
       /\ media_session[s] \in stopped => pc[s] = "done"

\* the session of one stream was stopped while the other stream, on the same
\* worker and data center, fetches a chunk on a session of its own
StoppedNeverUsedWitness ==
  \E s, u \in Active :
    /\ media_session[s] \in stopped
    /\ u \in StreamsOf(req[s].index, req[s].dc_id)
    /\ pc[u] = "getfile"
    /\ media_session[u] \notin {None, media_session[s]}

\* C24: only authorized cross-DC sessions enter the pool - a session stored
\* for a foreign data center is one on which an ImportAuthorization has
\* succeeded, and so is a session of a foreign data center on which a
\* GetFile is under way.
OnlyAuthorizedInPool ==
  /\ \A w \in Workers, d \in DCs \ {client_dc_id} :
       media_sessions[w][d] # None => media_sessions[w][d] \in imported
  /\ \A s \in Active :
       (pc[s] = "getfile" /\ req[s].dc_id # client_dc_id) =>
         media_session[s] \in imported

\* C25: bounded authorization - whatever the backend answers, a stream sends
\* no more than three ExportAuthorization calls and gets no more than three
\* failures, and, every await returning, _authenticate_session is left
\* (it returns or raises).
BoundedAuthorization ==
  /\ [](\A s \in Streams :
          /\ exports[s] <= 3
          /\ abi[s] + other[s] <= 3
          /\ attempt[s] <= 2)
  /\ \A s \in Streams : (pc[s] \in InAuth) ~> (pc[s] \notin InAuth)

\* a stream has left _authenticate_session after three rounds that ended in
\* AuthBytesInvalid as well as in other errors
BoundedAuthorizationWitness ==
  \E s \in Active :
    /\ exports[s] = 3
    /\ abi[s] >= 1
    /\ other[s] >= 1
    /\ pc[s] \notin InAuth

\* C26: export then import - an ImportAuthorization that is under way was
\* sent on a started session and carries the id of the ExportAuthorization
\* answered in the same attempt, the last one answered; the step that sends
\* it starts from the sleep after that export; and a retry starts with a
\* new ExportAuthorization.
ExportThenImport ==
  /\ [](\A s \in Active :
          pc[s] = "import" =>
            /\ import_auth[s] # None
            /\ import_auth[s] = exports[s]
            /\ exports[s] = attempt[s] + 1
            /\ media_session[s] \in started)
  /\ [][\A s \in Active :
          /\ (pc'[s] = "import" /\ pc[s] # "import") =>
               /\ pc[s] = "settle"
               /\ exported_auth[s] = exports[s]
               /\ import_auth'[s] = exported_auth[s]
          /\ (pc'[s] \in InAuth /\ attempt'[s] # attempt[s]) =>
               /\ pc'[s] = "export"
               /\ exports'[s] = exports[s]]_vars

\* the ImportAuthorization of the third attempt is under way, with the id of
\* the third export
ExportThenImportWitness ==
  \E s \in Active :
    /\ pc[s] = "import"
    /\ attempt[s] = 2
    /\ import_auth[s] = 3
    /\ abi[s] >= 1

\* C27: counters never negative - no work_loads[w] is below zero; more than
\* that, it is never below the number of streams on w that are inside their
\* try block, the ones that have incremented it and not yet decremented it.
CountersNeverNegative ==
  \A w \in Workers :
    /\ work_loads[w] >= 0
    /\ work_loads[w] >=
         Cardinality({s \in Active : req[s].index = w /\ pc[s] \in InTry})

\* two streams on one worker have both left their try block, one at the end
\* of its range and one on a backend error, and the counter is at zero
CountersNeverNegativeWitness ==
  \E s, u \in Active :
    /\ req[s].index = req[u].index
    /\ result[s] = "complete"
    /\ result[u] = "error"
    /\ work_loads[req[s].index] = 0

\* C28: cache entries are consistent under interleaving - an entry under key
\* m is the FileId the store has for m, nothing is cached for a message
\* without a file, and an invocation that has returned returned the FileId
\* of its own message (or FileNotFound when the message has none), also when
\* a sweep ran while it awaited get_file_ids.
CacheEntryConsistency ==
  /\ \A m \in Messages :
       cached_file_ids[m] # NoFileId =>
         (cached_file_ids[m] = store[m] /\ cached_file_ids[m] = FileIdOf(m))
  /\ \A t \in Resolvers :
       (rpc[t] = "idle" /\ message_id[t] # None) =>
         file_id[t] = IF store[message_id[t]] = NoFileId
                        THEN FileNotFound
                        ELSE FileIdOf(message_id[t])

\* a sweep ran while an invocation awaited get_file_ids; the invocation has
\* returned the FileId of its message and put it into the cache, next to the
\* entry the other invocation has made for another message
CacheEntryConsistencyWitness ==
  \E t, u \in Resolvers :
    /\ t # u
    /\ rpc[t] = "idle"
    /\ called[t]
    /\ swept[t]
    /\ file_id[t] = FileIdOf(message_id[t])
    /\ cached_file_ids[message_id[t]] = FileIdOf(message_id[t])
    /\ message_id[u] \notin {None, message_id[t]}
    /\ cached_file_ids[message_id[u]] = FileIdOf(message_id[u])

====
